---- MODULE Spec2Model ----
(***************************************************************************)
(* Transfer-limit policy engine of app/server/utils/transfer_limits.py.    *)
(*                                                                         *)
(* State: the users (roles, phone / KYC verification, group role,          *)
(* balance), the persisted credit transfers, the current day, the value    *)
(* returned by the engine call made in the last step, the module-level     *)
(* list LIMITS as it currently is (registry), and, where a specification   *)
(* records them, the engine calls made so far with what they returned      *)
(* (calls).  uncommitted holds the ids of the persisted transfers whose    *)
(* database session has not committed yet: such a row is visible to the    *)
(* queries of its own session only.                                        *)
(* Engine operations: get_transfer_limits, BaseTransferLimit               *)
(* .validate_transfer, and the evaluator that validates a transfer against *)
(* every applicable limit in registry order.                               *)
(***************************************************************************)
EXTENDS Integers, Sequences, FiniteSets, TLC

VARIABLES users, transfers, now, result, registry, calls, uncommitted

vars == <<users, transfers, now, result, registry, calls, uncommitted>>

(***************************************************************************)
(* Bounds of the model.                                                    *)
(***************************************************************************)
\* kyc applications per user
MaxApps == 2
\* persisted credit transfers
MaxTransfers == 2
\* engine calls recorded in calls
MaxCalls == 3

None == "None"

(***************************************************************************)
(* Enumerations and module constants (transfer_limits.py lines 34-48).     *)
(***************************************************************************)
PAYMENT == "PAYMENT"
DEPOSIT == "DEPOSIT"
WITHDRAWAL == "WITHDRAWAL"

AGENT_OUT == "AGENT_OUT"
AGENT_IN == "AGENT_IN"
STANDARD == "STANDARD"
RECLAMATION == "RECLAMATION"
\* a subtype of TransferSubTypeEnum that no selector of the registry names
DISBURSEMENT == "DISBURSEMENT"

\* A selector is <<Type>> or <<Type, SubType>>.
STANDARD_PAYMENT == <<PAYMENT, STANDARD>>
AGENT_OUT_PAYMENT == <<PAYMENT, AGENT_OUT>>
AGENT_IN_PAYMENT == <<PAYMENT, AGENT_IN>>
RECLAMATION_PAYMENT == <<PAYMENT, RECLAMATION>>

\* a plausible slip: the payment rules select on the type alone
GENERAL_PAYMENTS_by_type == <<(<<PAYMENT>>)>>

GENERAL_PAYMENTS == <<STANDARD_PAYMENT, AGENT_OUT_PAYMENT, AGENT_IN_PAYMENT, RECLAMATION_PAYMENT>>

TransferTypes == {PAYMENT, DEPOSIT, WITHDRAWAL}
TransferSubTypes == {None, STANDARD, AGENT_IN, AGENT_OUT, RECLAMATION, DISBURSEMENT}
TokenTypes == {"LIQUID", "RESERVE"}

Users == {"u1", "u2", "adm"}

(***************************************************************************)
(* AccessControl.has_sufficient_tier(roles, 'ADMIN', 'sempoadmin'): the    *)
(* user's ADMIN tier is at or above the floor.                             *)
(***************************************************************************)
AdminTierRank(tier) ==
    CASE tier = "sempoadmin" -> 5
      [] tier = "superadmin" -> 4
      [] tier = "admin" -> 3
      [] tier = "subadmin" -> 2
      [] tier = "view" -> 1
      [] OTHER -> 0

has_sufficient_tier(roles, floor) == AdminTierRank(roles) >= AdminTierRank(floor)

(***************************************************************************)
(* SIMPLE CHECKS                                                           *)
(***************************************************************************)
sempo_admin_involved(t) ==
    \/ t.recipient_user # None /\ has_sufficient_tier(users[t.recipient_user].roles, "sempoadmin")
    \/ t.sender_user # None /\ has_sufficient_tier(users[t.sender_user].roles, "sempoadmin")

sender_user_exists(t) == t.sender_user # None

user_has_group_account_role(t) == users[t.sender_user].has_group_account_role

user_phone_is_verified(t) == users[t.sender_user].is_phone_verified

\* the two criteria lambdas of lines 84 and 91-92
individual_criteria(app) ==
    app.kyc_status = "VERIFIED" /\ app.type = "INDIVIDUAL" /\ ~app.multiple_documents_verified

business_or_multidoc_criteria(app) ==
    app.kyc_status = "VERIFIED" /\ (app.type = "BUSINESS" \/ app.multiple_documents_verified)

\* which is "individual" or "business": the criteria passed by the caller
sender_matches_kyc_criteria(t, which) ==
    IF t.sender_user # None
    THEN \E i \in 1..Len(users[t.sender_user].kyc_applications) :
            IF which = "individual"
            THEN individual_criteria(users[t.sender_user].kyc_applications[i])
            ELSE business_or_multidoc_criteria(users[t.sender_user].kyc_applications[i])
    ELSE FALSE

user_individual_kyc_is_verified(t) == sender_matches_kyc_criteria(t, "individual")

user_business_or_multidoc_kyc_verified(t) == sender_matches_kyc_criteria(t, "business")

token_is_liquid_type(t) == t.token # None /\ t.token = "LIQUID"

token_is_reserve_type(t) == t.token # None /\ t.token = "RESERVE"

(***************************************************************************)
(* COMPOSITE CHECKS                                                        *)
(***************************************************************************)
\* a plausible slip: the sempoadmin exemption is left out
base_check_no_admin_exemption(t) == sender_user_exists(t)

base_check(t) == sender_user_exists(t) /\ ~sempo_admin_involved(t)

is_user_and_any_token(t) ==
    base_check(t) /\ (token_is_reserve_type(t) \/ token_is_liquid_type(t))

is_user_and_liquid_token(t) ==
    base_check(t) /\ token_is_liquid_type(t) /\ ~user_has_group_account_role(t)

is_group_and_liquid_token(t) ==
    base_check(t) /\ token_is_liquid_type(t) /\ user_has_group_account_role(t)

is_any_token_and_user_is_not_phone_and_not_kyc_verified(t) ==
    is_user_and_any_token(t) /\ ~user_phone_is_verified(t) /\ ~user_individual_kyc_is_verified(t)

\* a plausible slip: the phone tier does not look at the KYC applications
is_any_token_and_user_is_phone_verified_only(t) ==
    is_user_and_any_token(t) /\ user_phone_is_verified(t)

is_any_token_and_user_is_phone_but_not_kyc_verified(t) ==
    is_user_and_any_token(t) /\ user_phone_is_verified(t)
        /\ ~(user_individual_kyc_is_verified(t) \/ user_business_or_multidoc_kyc_verified(t))

\* a plausible slip: the KYC tier also asks for the verified phone
is_any_token_and_user_is_kyc_verified_with_phone(t) ==
    is_user_and_any_token(t) /\ user_phone_is_verified(t)
        /\ user_individual_kyc_is_verified(t)

is_any_token_and_user_is_kyc_verified(t) ==
    is_user_and_any_token(t) /\ user_individual_kyc_is_verified(t)

is_any_token_and_user_is_kyc_business_verified(t) ==
    is_user_and_any_token(t) /\ user_business_or_multidoc_kyc_verified(t)

\* the application_filter callable bound to a limit, by name
application_filter(f, t) ==
    CASE f = "is_user_and_liquid_token" -> is_user_and_liquid_token(t)
      [] f = "is_group_and_liquid_token" -> is_group_and_liquid_token(t)
      [] f = "is_any_token_and_user_is_not_phone_and_not_kyc_verified" ->
            is_any_token_and_user_is_not_phone_and_not_kyc_verified(t)
      [] f = "is_any_token_and_user_is_phone_but_not_kyc_verified" ->
            is_any_token_and_user_is_phone_but_not_kyc_verified(t)
      [] f = "is_any_token_and_user_is_kyc_verified" ->
            is_any_token_and_user_is_kyc_verified(t)
      [] f = "is_any_token_and_user_is_kyc_business_verified" ->
            is_any_token_and_user_is_kyc_business_verified(t)

(***************************************************************************)
(* The checks as Python calls.  A call returns a bool, None or an object   *)
(* (`a and b` returns a when a is falsy, else b), or raises: reading an    *)
(* attribute of credit_transfer.sender_user when it is None raises         *)
(* AttributeError.                                                         *)
(***************************************************************************)
PyBool(b) == IF b THEN "True" ELSE "False"

Returned(v) == [raised |-> None, v |-> v]
Failed(e) == [raised |-> e, v |-> None]

\* truth value of a returned Python value: None and False are falsy, a
\* model object is truthy
truthy(r) == r.v \in {"True", "object"}

py_and(a, b) == IF a.raised # None \/ ~truthy(a) THEN a ELSE b

py_or(a, b) == IF a.raised # None \/ truthy(a) THEN a ELSE b

py_not(a) == IF a.raised # None THEN a ELSE Returned(PyBool(~truthy(a)))

\* credit_transfer.sender_user.<attribute>
sender_user_attribute(t, attribute) ==
    IF t.sender_user = None THEN Failed("AttributeError")
    ELSE Returned(PyBool(IF attribute = "has_group_account_role"
                         THEN users[t.sender_user].has_group_account_role
                         ELSE users[t.sender_user].is_phone_verified))

py_sender_user_exists(t) == Returned(IF t.sender_user = None THEN None ELSE "object")

py_user_has_group_account_role(t) == sender_user_attribute(t, "has_group_account_role")

py_user_phone_is_verified(t) == sender_user_attribute(t, "is_phone_verified")

py_user_individual_kyc_is_verified(t) == Returned(PyBool(user_individual_kyc_is_verified(t)))

py_user_business_or_multidoc_kyc_verified(t) ==
    Returned(PyBool(user_business_or_multidoc_kyc_verified(t)))

py_token_is_liquid_type(t) ==
    py_and(Returned(IF t.token = None THEN None ELSE "object"),
           Returned(PyBool(t.token = "LIQUID")))

py_token_is_reserve_type(t) ==
    py_and(Returned(IF t.token = None THEN None ELSE "object"),
           Returned(PyBool(t.token = "RESERVE")))

py_base_check(t) ==
    py_and(py_sender_user_exists(t), py_not(Returned(PyBool(sempo_admin_involved(t)))))

py_is_user_and_any_token(t) ==
    py_and(py_base_check(t), py_or(py_token_is_reserve_type(t), py_token_is_liquid_type(t)))

py_is_user_and_liquid_token(t) ==
    py_and(py_and(py_base_check(t), py_token_is_liquid_type(t)),
           py_not(py_user_has_group_account_role(t)))

py_is_group_and_liquid_token(t) ==
    py_and(py_and(py_base_check(t), py_token_is_liquid_type(t)),
           py_user_has_group_account_role(t))

py_is_any_token_and_user_is_not_phone_and_not_kyc_verified(t) ==
    py_and(py_and(py_is_user_and_any_token(t), py_not(py_user_phone_is_verified(t))),
           py_not(py_user_individual_kyc_is_verified(t)))

py_is_any_token_and_user_is_phone_but_not_kyc_verified(t) ==
    py_and(py_and(py_is_user_and_any_token(t), py_user_phone_is_verified(t)),
           py_not(py_or(py_user_individual_kyc_is_verified(t),
                        py_user_business_or_multidoc_kyc_verified(t))))

py_is_any_token_and_user_is_kyc_verified(t) ==
    py_and(py_is_user_and_any_token(t), py_user_individual_kyc_is_verified(t))

py_is_any_token_and_user_is_kyc_business_verified(t) ==
    py_and(py_is_user_and_any_token(t), py_user_business_or_multidoc_kyc_verified(t))

SimpleChecks ==
    {"sender_user_exists", "user_has_group_account_role", "user_phone_is_verified",
     "user_individual_kyc_is_verified", "user_business_or_multidoc_kyc_verified",
     "token_is_liquid_type", "token_is_reserve_type"}

CompositeChecks ==
    {"base_check", "is_user_and_any_token", "is_user_and_liquid_token",
     "is_group_and_liquid_token",
     "is_any_token_and_user_is_not_phone_and_not_kyc_verified",
     "is_any_token_and_user_is_phone_but_not_kyc_verified",
     "is_any_token_and_user_is_kyc_verified",
     "is_any_token_and_user_is_kyc_business_verified"}

\* the call check(credit_transfer), the check given by name
call_check(check, t) ==
    CASE check = "sender_user_exists" -> py_sender_user_exists(t)
      [] check = "user_has_group_account_role" -> py_user_has_group_account_role(t)
      [] check = "user_phone_is_verified" -> py_user_phone_is_verified(t)
      [] check = "user_individual_kyc_is_verified" -> py_user_individual_kyc_is_verified(t)
      [] check = "user_business_or_multidoc_kyc_verified" ->
            py_user_business_or_multidoc_kyc_verified(t)
      [] check = "token_is_liquid_type" -> py_token_is_liquid_type(t)
      [] check = "token_is_reserve_type" -> py_token_is_reserve_type(t)
      [] check = "base_check" -> py_base_check(t)
      [] check = "is_user_and_any_token" -> py_is_user_and_any_token(t)
      [] check = "is_user_and_liquid_token" -> py_is_user_and_liquid_token(t)
      [] check = "is_group_and_liquid_token" -> py_is_group_and_liquid_token(t)
      [] check = "is_any_token_and_user_is_not_phone_and_not_kyc_verified" ->
            py_is_any_token_and_user_is_not_phone_and_not_kyc_verified(t)
      [] check = "is_any_token_and_user_is_phone_but_not_kyc_verified" ->
            py_is_any_token_and_user_is_phone_but_not_kyc_verified(t)
      [] check = "is_any_token_and_user_is_kyc_verified" ->
            py_is_any_token_and_user_is_kyc_verified(t)
      [] check = "is_any_token_and_user_is_kyc_business_verified" ->
            py_is_any_token_and_user_is_kyc_business_verified(t)

(***************************************************************************)
(* Configuration (config.TRANSFER_LIMITS, config.LIMIT_EXCHANGE_RATE).     *)
(* The thresholds are scaled down to the amounts the model draws; the      *)
(* exchange rate is the fraction <<numerator, denominator>>.               *)
(***************************************************************************)
LIMIT_EXCHANGE_RATE == <<1, 2>>

TRANSFER_LIMITS ==
    [k \in {"0.P7", "0.P30", "1.P7", "1.P30", "2.P7", "2.P30", "2.WD7", "2.WD30",
            "3.P7", "3.P30", "3.WD7", "3.WD30", "LT.MaxAm"} |->
        CASE k = "0.P7" -> 201
          [] k = "0.P30" -> 401
          [] k = "1.P7" -> 503
          [] k = "1.P30" -> 1003
          [] k = "2.P7" -> 1001
          [] k = "2.P30" -> 2001
          [] k = "2.WD7" -> 1001
          [] k = "2.WD30" -> 2001
          [] k = "3.P7" -> 2001
          [] k = "3.P30" -> 4001
          [] k = "3.WD7" -> 2001
          [] k = "3.WD30" -> 4001
          [] k = "LT.MaxAm" -> 501]

\* int(x * fraction) for x >= 0: the product truncated to an integer
int_times(x, fraction) == (x * fraction[1]) \div fraction[2]

(***************************************************************************)
(* Limit classes: the constructors (__init__) build the rule instances.    *)
(***************************************************************************)
\* BaseTransferLimit.__init__: a selector given as a list becomes a tuple;
\* selectors are tuples here already, so the selector list is kept in order.
BaseTransferLimit(cls, name, applied_to_transfer_types, filter) ==
    [cls |-> cls, name |-> name,
     applied_to_transfer_types |-> applied_to_transfer_types,
     application_filter |-> filter]

NoTransferAllowedLimit(name, types, filter) ==
    BaseTransferLimit("NoTransferAllowedLimit", name, types, filter)

MaximumAmountPerTransferLimit(name, types, filter, maximum_amount) ==
    [cls |-> "MaximumAmountPerTransferLimit", name |-> name,
     applied_to_transfer_types |-> types, application_filter |-> filter,
     maximum_amount |-> int_times(maximum_amount, LIMIT_EXCHANGE_RATE)]

TotalAmountLimit(name, types, filter, time_period_days, total_amount) ==
    [cls |-> "TotalAmountLimit", name |-> name,
     applied_to_transfer_types |-> types, application_filter |-> filter,
     time_period_days |-> time_period_days,
     custom_aggregation_filter |-> "matching_transfer_type_filter",
     total_amount |-> int_times(total_amount, LIMIT_EXCHANGE_RATE)]

MinimumSentLimit(name, types, filter, time_period_days, aggregation_filter) ==
    [cls |-> "MinimumSentLimit", name |-> name,
     applied_to_transfer_types |-> types, application_filter |-> filter,
     time_period_days |-> time_period_days,
     custom_aggregation_filter |-> aggregation_filter,
     minimum_sent_aggregation_filter |-> "regular_payment_filter"]

BalanceFractionLimit(name, types, filter, time_period_days, aggregation_filter, balance_fraction) ==
    [cls |-> "BalanceFractionLimit", name |-> name,
     applied_to_transfer_types |-> types, application_filter |-> filter,
     time_period_days |-> time_period_days,
     custom_aggregation_filter |-> aggregation_filter,
     balance_fraction |-> balance_fraction]

TransferCountLimit(name, types, filter, time_period_days, aggregation_filter, transfer_count) ==
    [cls |-> "TransferCountLimit", name |-> name,
     applied_to_transfer_types |-> types, application_filter |-> filter,
     time_period_days |-> time_period_days,
     custom_aggregation_filter |-> aggregation_filter,
     transfer_count |-> transfer_count]

(***************************************************************************)
(* The registry.                                                           *)
(***************************************************************************)
LIMITS == <<
    TotalAmountLimit("Sempo Level 0: P7", GENERAL_PAYMENTS,
        "is_any_token_and_user_is_not_phone_and_not_kyc_verified", 7, TRANSFER_LIMITS["0.P7"]),
    TotalAmountLimit("Sempo Level 0: P30", GENERAL_PAYMENTS,
        "is_any_token_and_user_is_not_phone_and_not_kyc_verified", 30, TRANSFER_LIMITS["0.P30"]),
    NoTransferAllowedLimit("Sempo Level 0: WD30", <<(<<WITHDRAWAL>>), (<<DEPOSIT>>)>>,
        "is_any_token_and_user_is_not_phone_and_not_kyc_verified"),

    TotalAmountLimit("Sempo Level 1: P7", GENERAL_PAYMENTS,
        "is_any_token_and_user_is_phone_but_not_kyc_verified", 7, TRANSFER_LIMITS["1.P7"]),
    TotalAmountLimit("Sempo Level 1: P30", GENERAL_PAYMENTS,
        "is_any_token_and_user_is_phone_but_not_kyc_verified", 30, TRANSFER_LIMITS["1.P30"]),
    NoTransferAllowedLimit("Sempo Level 1: WD30", <<(<<WITHDRAWAL>>), (<<DEPOSIT>>)>>,
        "is_any_token_and_user_is_phone_but_not_kyc_verified"),

    TotalAmountLimit("Sempo Level 2: P7", GENERAL_PAYMENTS,
        "is_any_token_and_user_is_kyc_verified", 7, TRANSFER_LIMITS["2.P7"]),
    TotalAmountLimit("Sempo Level 2: P30", GENERAL_PAYMENTS,
        "is_any_token_and_user_is_kyc_verified", 30, TRANSFER_LIMITS["2.P30"]),
    TotalAmountLimit("Sempo Level 2: WD7", <<(<<WITHDRAWAL>>), (<<DEPOSIT>>)>>,
        "is_any_token_and_user_is_kyc_verified", 7, TRANSFER_LIMITS["2.WD7"]),
    TotalAmountLimit("Sempo Level 2: WD30", <<(<<WITHDRAWAL>>), (<<DEPOSIT>>)>>,
        "is_any_token_and_user_is_kyc_verified", 30, TRANSFER_LIMITS["2.WD30"]),

    TotalAmountLimit("Sempo Level 3: P7", GENERAL_PAYMENTS,
        "is_any_token_and_user_is_kyc_business_verified", 7, TRANSFER_LIMITS["3.P7"]),
    TotalAmountLimit("Sempo Level 3: P30", GENERAL_PAYMENTS,
        "is_any_token_and_user_is_kyc_business_verified", 30, TRANSFER_LIMITS["3.P30"]),
    TotalAmountLimit("Sempo Level 3: WD7", <<(<<WITHDRAWAL>>), (<<DEPOSIT>>)>>,
        "is_any_token_and_user_is_kyc_business_verified", 7, TRANSFER_LIMITS["3.WD7"]),
    TotalAmountLimit("Sempo Level 3: WD30", <<(<<WITHDRAWAL>>), (<<DEPOSIT>>)>>,
        "is_any_token_and_user_is_kyc_business_verified", 30, TRANSFER_LIMITS["3.WD30"]),

    NoTransferAllowedLimit("GE Liquid Token - Standard User",
        <<AGENT_OUT_PAYMENT, (<<WITHDRAWAL>>)>>, "is_user_and_liquid_token"),

    TransferCountLimit("GE Liquid Token - Group Account User",
        <<AGENT_OUT_PAYMENT, (<<WITHDRAWAL>>)>>, "is_group_and_liquid_token", 30,
        "withdrawal_or_agent_out_and_not_excluded_filter", 1),

    BalanceFractionLimit("GE Liquid Token - Group Account User",
        <<AGENT_OUT_PAYMENT, (<<WITHDRAWAL>>)>>, "is_group_and_liquid_token", 30,
        "withdrawal_or_agent_out_and_not_excluded_filter", <<1, 2>>),

    MinimumSentLimit("GE Liquid Token - Group Account User",
        <<AGENT_OUT_PAYMENT, (<<WITHDRAWAL>>)>>, "is_group_and_liquid_token", 30,
        "withdrawal_or_agent_out_and_not_excluded_filter"),

    MaximumAmountPerTransferLimit("GE Liquid Token - Group Account User",
        <<AGENT_OUT_PAYMENT, (<<WITHDRAWAL>>)>>, "is_group_and_liquid_token",
        TRANSFER_LIMITS["LT.MaxAm"])
>>

LimitIds == 1..Len(LIMITS)

(***************************************************************************)
(* BaseTransferLimit.applies_to_transfer and get_transfer_limits.          *)
(***************************************************************************)
Range(seq) == {seq[k] : k \in 1..Len(seq)}

\* `x in list`: some element of the list equals x
in_list(x, list) == \E i \in 1..Len(list) : list[i] = x

\* a plausible slip: a (Type, SubType) selector also matches on its Type alone
applies_to_transfer_wildcard(limit, t) ==
    /\ \E i \in 1..Len(limit.applied_to_transfer_types) :
            limit.applied_to_transfer_types[i][1] = t.transfer_type
    /\ application_filter(limit.application_filter, t)

applies_to_transfer(limit, t) ==
    /\ \/ in_list(<<t.transfer_type>>, limit.applied_to_transfer_types)
       \/ in_list(<<t.transfer_type, t.transfer_subtype>>, limit.applied_to_transfer_types)
    /\ application_filter(limit.application_filter, t)

\* the applicable rules, as their positions in LIMITS, in registry order
get_transfer_limits(t) ==
    SelectSeq([i \in 1..Len(registry) |-> i], LAMBDA i : applies_to_transfer(registry[i], t))

\* LIMITS after get_transfer_limits: the comprehension builds a new list,
\* and applies_to_transfer assigns no attribute of the rule
registry_after_get_transfer_limits(reg, t) == reg

(***************************************************************************)
(* LIMIT FILTERS: each is a predicate on a persisted row c, built for the  *)
(* transfer t under validation.                                            *)
(***************************************************************************)
after_time_period_filter_exclusive(c, days) == c.created > now - days

after_time_period_filter(c, days) == c.created >= now - days

matching_sender_user_filter(c, t) == c.sender_user = t.sender_user

regular_payment_filter(c, t) == c.transfer_subtype = STANDARD

matching_transfer_type_filter(c, t) == c.transfer_type = t.transfer_type

matching_transfer_type_and_subtype_filter(c, t) ==
    c.transfer_type = t.transfer_type /\ c.transfer_subtype = t.transfer_subtype

withdrawal_or_agent_out_and_not_excluded_filter(c, t) ==
    /\ (c.transfer_type = WITHDRAWAL \/ c.transfer_subtype = AGENT_OUT)
    /\ c.exclude_from_limit_calcs = FALSE

\* a plausible slip: rejected transfers are aggregated too
not_rejected_filter_any_status(c) == TRUE

not_rejected_filter(c) == c.transfer_status # "REJECTED"

\* the aggregation filter callable bound to a limit, by name
custom_filter(f, c, t) ==
    CASE f = "matching_transfer_type_filter" -> matching_transfer_type_filter(c, t)
      [] f = "matching_transfer_type_and_subtype_filter" ->
            matching_transfer_type_and_subtype_filter(c, t)
      [] f = "withdrawal_or_agent_out_and_not_excluded_filter" ->
            withdrawal_or_agent_out_and_not_excluded_filter(c, t)
      [] f = "regular_payment_filter" -> regular_payment_filter(c, t)

(***************************************************************************)
(* AggregateLimit: the filtered query and its aggregates.                  *)
(***************************************************************************)
\* db.session.query(...): the rows the session of transfer t sees are the
\* committed rows and the rows of the session itself
visible_to(c, t) == c.id \notin uncommitted \/ c.id = t.id

\* a plausible slip: the aggregate also reads the rows other sessions have
\* not committed yet
query_constructor_filter_specifiable_dirty_read(limit, t, f) ==
    {i \in 1..Len(transfers) :
        /\ matching_sender_user_filter(transfers[i], t)
        /\ not_rejected_filter(transfers[i])
        /\ after_time_period_filter(transfers[i], limit.time_period_days)
        /\ custom_filter(f, transfers[i], t)}

\* the rows (positions in transfers) the filtered query selects
query_constructor_filter_specifiable(limit, t, f) ==
    {i \in 1..Len(transfers) :
        /\ visible_to(transfers[i], t)
        /\ matching_sender_user_filter(transfers[i], t)
        /\ not_rejected_filter(transfers[i])
        /\ after_time_period_filter(transfers[i], limit.time_period_days)
        /\ custom_filter(f, transfers[i], t)}

query_constructor(limit, t) ==
    query_constructor_filter_specifiable(limit, t, limit.custom_aggregation_filter)

RECURSIVE sum_rows(_, _)
sum_rows(rows, n) ==
    IF n = 0 THEN 0
    ELSE (IF n \in rows THEN transfers[n].transfer_amount ELSE 0) + sum_rows(rows, n - 1)

\* func.sum(transfer_amount) over the rows: NULL (null |-> TRUE) over no row
func_sum(rows) ==
    IF rows = {} THEN [null |-> TRUE, total |-> 0]
    ELSE [null |-> FALSE, total |-> sum_rows(rows, Len(transfers))]

\* func.count(id) over the rows
func_count(rows) == Cardinality(rows)

\* A computed capacity, or the TypeError raised while computing it.
Value(v) == [raised |-> None, v |-> v]
Raised(e) == [raised |-> e, v |-> 0]

\* AggregateTransferAmountMixin.used_aggregator: None - int raises TypeError
amount_used_aggregator(limit, t) ==
    LET q == func_sum(query_constructor(limit, t))
    IN IF q.null THEN Raised("TypeError") ELSE Value(q.total - t.transfer_amount)

\* a plausible slip: the transfer's own row is not subtracted
count_used_aggregator_no_self_exclusion(limit, t) ==
    Value(func_count(query_constructor(limit, t)))

\* TransferCountLimit.used_aggregator
count_used_aggregator(limit, t) == Value(func_count(query_constructor(limit, t)) - 1)

used_aggregator(limit, t) ==
    IF limit.cls = "TransferCountLimit"
    THEN count_used_aggregator(limit, t)
    ELSE amount_used_aggregator(limit, t)

\* MinimumSentLimit.available_base: `total or 0`
minimum_sent_available_base(limit, t) ==
    LET q == func_sum(query_constructor_filter_specifiable(
                        limit, t, limit.minimum_sent_aggregation_filter))
    IN IF q.null \/ q.total = 0 THEN 0 ELSE q.total

\* BalanceFractionLimit._total_from_balance
total_from_balance(limit, balance) == int_times(balance, limit.balance_fraction)

\* a plausible slip: the ceiling is taken from the balance the account was
\* opened with instead of the live balance
balance_fraction_available_base_stale(limit, t) == total_from_balance(limit, 500)

\* BalanceFractionLimit.available_base: transfer.sender_transfer_account.balance
balance_fraction_available_base(limit, t) ==
    total_from_balance(limit, users[t.sender_user].balance)

available_base(limit, t) ==
    CASE limit.cls = "TotalAmountLimit" -> limit.total_amount
      [] limit.cls = "MinimumSentLimit" -> minimum_sent_available_base(limit, t)
      [] limit.cls = "BalanceFractionLimit" -> balance_fraction_available_base(limit, t)
      [] limit.cls = "TransferCountLimit" -> limit.transfer_count

\* AggregateLimit.available: base - used
aggregate_available(limit, t) ==
    LET base == available_base(limit, t)
        used == used_aggregator(limit, t)
    IN IF used.raised # None THEN used ELSE Value(base - used.v)

\* a plausible slip: the per-transfer maximum is read before scaling
maximum_available_unscaled(limit, t) == Value(TRANSFER_LIMITS["LT.MaxAm"])

\* MaximumAmountPerTransferLimit.available
maximum_available(limit, t) == Value(limit.maximum_amount)

available(limit, t) ==
    CASE limit.cls = "NoTransferAllowedLimit" -> Value(0)
      [] limit.cls = "MaximumAmountPerTransferLimit" -> maximum_available(limit, t)
      [] OTHER -> aggregate_available(limit, t)

\* a plausible slip: every rule uses one unit of its capacity
case_will_use_one_unit(limit, t) == 1

case_will_use(limit, t) ==
    CASE limit.cls \in {"NoTransferAllowedLimit", "TransferCountLimit"} -> 1
      [] OTHER -> t.transfer_amount

\* the exception class throw_validation_error raises
throw_validation_error(limit) ==
    CASE limit.cls = "NoTransferAllowedLimit" -> "NoTransferAllowedLimitError"
      [] limit.cls = "MaximumAmountPerTransferLimit" -> "MaximumPerTransferLimitError"
      [] limit.cls = "TotalAmountLimit" -> "TransferAmountLimitError"
      [] limit.cls = "MinimumSentLimit" -> "MinimumSentLimitError"
      [] limit.cls = "BalanceFractionLimit" -> "TransferBalanceFractionLimitError"
      [] limit.cls = "TransferCountLimit" -> "TransferCountLimitError"

\* max(available, 0) of the messages
max0(x) == IF x > 0 THEN x ELSE 0

\* the keyword arguments throw_validation_error hands to the exception it
\* raises; the message is the formatted text, kept as its parts
validation_error_arguments(limit, t, avail) ==
    CASE limit.cls = "NoTransferAllowedLimit" ->
            [token |-> t.token]
      [] limit.cls = "MaximumAmountPerTransferLimit" ->
            [message |-> <<"Maximum Per Transfer Exceeded (Limit ", limit.name, "). ",
                           limit.maximum_amount, " available">>,
             maximum_amount_limit |-> limit.maximum_amount,
             token |-> t.token]
      [] limit.cls \in {"TotalAmountLimit", "MinimumSentLimit"} ->
            [transfer_amount_limit |-> available_base(limit, t),
             transfer_amount_avail |-> avail,
             limit_time_period_days |-> limit.time_period_days,
             token |-> t.token,
             message |-> <<"Account Limit \"", limit.name, "\" reached. ",
                           max0(avail), " available">>]
      [] limit.cls = "BalanceFractionLimit" ->
            [transfer_balance_fraction_limit |-> limit.balance_fraction,
             transfer_amount_avail |-> avail,
             limit_time_period_days |-> limit.time_period_days,
             token |-> t.token,
             message |-> <<"Account % Limit \"", limit.name, "\" reached. ",
                           max0(avail), " available">>]
      [] limit.cls = "TransferCountLimit" ->
            [transfer_count_limit |-> limit.transfer_count,
             limit_time_period_days |-> limit.time_period_days,
             token |-> t.token,
             message |-> <<"Account Limit \"", limit.name, "\" reached. Allowed ",
                           limit.transfer_count, " transaction per ",
                           limit.time_period_days, " days">>]

\* a plausible slip: the comparison is off by one
validate_transfer_off_by_one(limit, t) ==
    LET a == available(limit, t)
    IN IF a.raised # None THEN [outcome |-> a.raised, available |-> 0, arguments |-> None]
       ELSE IF a.v + 1 < case_will_use(limit, t)
            THEN [outcome |-> throw_validation_error(limit), available |-> a.v,
                  arguments |-> validation_error_arguments(limit, t, a.v)]
            ELSE [outcome |-> "pass", available |-> a.v, arguments |-> None]

\* BaseTransferLimit.validate_transfer: "pass", or the exception raised
validate_transfer(limit, t) ==
    LET a == available(limit, t)
    IN IF a.raised # None THEN [outcome |-> a.raised, available |-> 0, arguments |-> None]
       ELSE IF a.v < case_will_use(limit, t)
            THEN [outcome |-> throw_validation_error(limit), available |-> a.v,
                  arguments |-> validation_error_arguments(limit, t, a.v)]
            ELSE [outcome |-> "pass", available |-> a.v, arguments |-> None]

\* a plausible slip: a TotalAmountLimit keeps what it has admitted on the
\* instance, by lowering its ceiling
registry_after_validate_transfer_consuming(reg, i, t) ==
    IF reg[i].cls = "TotalAmountLimit" /\ validate_transfer(reg[i], t).outcome = "pass"
    THEN [reg EXCEPT ![i].total_amount = @ - t.transfer_amount]
    ELSE reg

\* LIMITS after limit.validate_transfer(transfer), limit the i-th rule:
\* validate_transfer, available, case_will_use and the aggregators assign
\* no attribute of the rule and do not touch the list
registry_after_validate_transfer(reg, i, t) == reg

(***************************************************************************)
(* Limit Evaluator: every applicable rule is validated in registry order;  *)
(* the first exception ends the evaluation and is the decision.            *)
(***************************************************************************)
\* a plausible slip: only the first applicable rule is validated
first_failure_first_rule_only(reg, limits, k, t) ==
    IF k > Len(limits) THEN [outcome |-> "pass", limit |-> 0, registry |-> reg]
    ELSE LET r == validate_transfer(reg[limits[k]], t)
             after == registry_after_validate_transfer(reg, limits[k], t)
         IN [outcome |-> r.outcome, limit |-> (IF r.outcome = "pass" THEN 0 ELSE limits[k]),
             registry |-> after]

RECURSIVE first_failure(_, _, _, _)
first_failure(reg, limits, k, t) ==
    IF k > Len(limits) THEN [outcome |-> "pass", limit |-> 0, registry |-> reg]
    ELSE LET r == validate_transfer(reg[limits[k]], t)
             after == registry_after_validate_transfer(reg, limits[k], t)
         IN IF r.outcome # "pass"
            THEN [outcome |-> r.outcome, limit |-> limits[k], registry |-> after]
            ELSE first_failure(after, limits, k + 1, t)

check_sender_transfer_limits(t) ==
    first_failure(registry_after_get_transfer_limits(registry, t),
                  get_transfer_limits(t), 1, t)

(***************************************************************************)
(* Objects.                                                                *)
(***************************************************************************)
\* a CreditTransfer object; id 0 is an object that is not persisted
CreditTransfer(id, sender, recipient, type, subtype, amount, token, excluded, created) ==
    [id |-> id, sender_user |-> sender, recipient_user |-> recipient,
     transfer_type |-> type, transfer_subtype |-> subtype,
     transfer_amount |-> amount, token |-> token,
     exclude_from_limit_calcs |-> excluded,
     created |-> created, transfer_status |-> "PENDING"]

User(roles, group) ==
    [roles |-> roles, is_phone_verified |-> FALSE, has_group_account_role |-> group,
     kyc_applications |-> <<>>, balance |-> 500]

KycApplication(status, type, multidoc) ==
    [kyc_status |-> status, type |-> type, multiple_documents_verified |-> multidoc]

NoResult == [op |-> "none"]

(***************************************************************************)
(* Inputs the model draws.                                                 *)
(***************************************************************************)
\* the users whose verification state changes
Subjects == {"u1"}

KycInputs ==
    {KycApplication("VERIFIED", ty, md) : ty \in {"INDIVIDUAL", "BUSINESS"}, md \in BOOLEAN}
        \cup {KycApplication("PENDING", "INDIVIDUAL", FALSE)}

\* transfer objects handed to get_transfer_limits
TierTransfers ==
    {CreditTransfer(0, s, r, ty, st, 1, tk, FALSE, 0) :
        s \in {None, "u1", "adm"}, r \in {None, "u2", "adm"},
        ty \in TransferTypes, st \in TransferSubTypes, tk \in TokenTypes \cup {None}}

(***************************************************************************)
(* Account management (outside the engine): verification state of a user.  *)
(***************************************************************************)
VerifyPhone(u) ==
    /\ ~users[u].is_phone_verified
    /\ users' = [users EXCEPT ![u].is_phone_verified = TRUE]
    /\ result' = NoResult
    /\ UNCHANGED <<transfers, now, registry, calls, uncommitted>>

AddKycApplication(u, app) ==
    /\ Len(users[u].kyc_applications) < MaxApps
    /\ users' = [users EXCEPT ![u].kyc_applications = Append(@, app)]
    /\ result' = NoResult
    /\ UNCHANGED <<transfers, now, registry, calls, uncommitted>>

VerifyKycApplication(u, i) ==
    /\ i \in 1..Len(users[u].kyc_applications)
    /\ users[u].kyc_applications[i].kyc_status # "VERIFIED"
    /\ users' = [users EXCEPT ![u].kyc_applications[i].kyc_status = "VERIFIED"]
    /\ result' = NoResult
    /\ UNCHANGED <<transfers, now, registry, calls, uncommitted>>

(***************************************************************************)
(* Engine call: get_transfer_limits(transfer).                             *)
(***************************************************************************)
GetTransferLimits(t) ==
    /\ result = NoResult
    /\ result' = [op |-> "get_transfer_limits", transfer |-> t,
                  limits |-> get_transfer_limits(t)]
    /\ registry' = registry_after_get_transfer_limits(registry, t)
    /\ UNCHANGED <<users, transfers, now, calls, uncommitted>>

(***************************************************************************)
(* Specification of rule applicability: the verification state of a sender *)
(* evolves, and get_transfer_limits is called on every kind of transfer.   *)
(***************************************************************************)
InitTiers ==
    /\ \E g \in BOOLEAN :
        users = [u \in Users |->
                    CASE u = "u1" -> User(None, g)
                      [] u = "u2" -> User("admin", FALSE)
                      [] u = "adm" -> User("sempoadmin", FALSE)]
    /\ transfers = <<>>
    /\ now = 0
    /\ result = NoResult
    /\ registry = LIMITS
    /\ calls = <<>>
    /\ uncommitted = {}

NextTiers ==
    \/ \E u \in Subjects : VerifyPhone(u)
    \/ \E u \in Subjects, app \in KycInputs : AddKycApplication(u, app)
    \/ \E u \in Subjects, i \in 1..MaxApps : VerifyKycApplication(u, i)
    \/ \E t \in TierTransfers : GetTransferLimits(t)

SpecTiers == InitTiers /\ [][NextTiers]_vars

(***************************************************************************)
(* Specification of the checks called on their own: the verification state *)
(* of a sender evolves, and each check is called on transfers with and     *)
(* without sender, recipient and token.                                    *)
(***************************************************************************)
\* transfer objects handed to a check: the checks read sender, recipient
\* and token only
CheckTransfers ==
    {x \in TierTransfers : x.transfer_type = PAYMENT /\ x.transfer_subtype = STANDARD}

CallCheck(check, t) ==
    /\ result = NoResult
    /\ LET r == call_check(check, t)
       IN result' = [op |-> "check", check |-> check, transfer |-> t,
                     raised |-> r.raised, v |-> r.v]
    /\ UNCHANGED <<users, transfers, now, registry, calls, uncommitted>>

NextChecks ==
    \/ \E u \in Subjects : VerifyPhone(u)
    \/ \E u \in Subjects, app \in KycInputs : AddKycApplication(u, app)
    \/ \E u \in Subjects, i \in 1..MaxApps : VerifyKycApplication(u, i)
    \/ \E check \in SimpleChecks \cup CompositeChecks, t \in CheckTransfers :
            CallCheck(check, t)

SpecChecks == InitTiers /\ [][NextChecks]_vars

(***************************************************************************)
(* Transfers with history: a transfer is created (persisted as PENDING at  *)
(* the current day), checked by the engine, and resolved by its caller.    *)
(***************************************************************************)
\* the submissions the model draws: <<sender, type, subtype, amount, excluded>>
HistInputs ==
    {<<"u1", PAYMENT, STANDARD, 250, FALSE>>,
     <<"u1", PAYMENT, AGENT_OUT, 1, FALSE>>,
     <<"u1", PAYMENT, AGENT_OUT, 250, FALSE>>,
     <<"u1", PAYMENT, AGENT_OUT, 251, FALSE>>,
     <<"u1", PAYMENT, AGENT_OUT, 251, TRUE>>,
     <<"u1", WITHDRAWAL, None, 250, FALSE>>,
     <<"u1", DEPOSIT, STANDARD, 250, FALSE>>,
     <<"u2", PAYMENT, AGENT_OUT, 250, FALSE>>}

\* the days at which something happens
DayPoints == {0, 7, 31}

Balances == {3, 500}

\* the transfer under validation: the newest row, still pending, created today
HasCandidate ==
    /\ Len(transfers) > 0
    /\ transfers[Len(transfers)].transfer_status = "PENDING"
    /\ transfers[Len(transfers)].created = now

Candidate == transfers[Len(transfers)]

CreateTransfer(in) ==
    /\ Len(transfers) < MaxTransfers
    /\ ~HasCandidate
    /\ transfers' = Append(transfers,
            CreditTransfer(Len(transfers) + 1, in[1], None, in[2], in[3], in[4],
                           "LIQUID", in[5], now))
    /\ result' = NoResult
    /\ UNCHANGED <<users, now, registry, calls, uncommitted>>

\* the caller resolves the transfer: complete, or rejected
ResolveTransfer(status) ==
    /\ HasCandidate
    /\ transfers' = [transfers EXCEPT ![Len(transfers)].transfer_status = status]
    /\ result' = NoResult
    /\ UNCHANGED <<users, now, registry, calls, uncommitted>>

AdvanceTime(d) ==
    /\ d > now
    /\ now' = d
    /\ result' = NoResult
    /\ UNCHANGED <<users, transfers, registry, calls, uncommitted>>

ChangeBalance(u, b) ==
    /\ users[u].balance # b
    /\ users' = [users EXCEPT ![u].balance = b]
    /\ result' = NoResult
    /\ UNCHANGED <<transfers, now, registry, calls, uncommitted>>

\* Engine call: limit.validate_transfer(transfer), limit an applicable rule
ValidateTransfer(i) ==
    /\ result = NoResult
    /\ HasCandidate
    /\ i \in 1..Len(registry)
    /\ applies_to_transfer(registry[i], Candidate)
    /\ LET r == validate_transfer(registry[i], Candidate)
       IN result' = [op |-> "validate_transfer", transfer |-> Candidate, limit |-> i,
                     outcome |-> r.outcome, available |-> r.available,
                     arguments |-> r.arguments]
    /\ registry' = registry_after_validate_transfer(registry, i, Candidate)
    /\ UNCHANGED <<users, transfers, now, calls, uncommitted>>

\* Engine call: the evaluator over all applicable rules
CheckSenderTransferLimits ==
    /\ result = NoResult
    /\ HasCandidate
    /\ LET r == check_sender_transfer_limits(Candidate)
       IN /\ result' = [op |-> "check_sender_transfer_limits", transfer |-> Candidate,
                        outcome |-> r.outcome, limit |-> r.limit]
          /\ registry' = r.registry
    /\ UNCHANGED <<users, transfers, now, calls, uncommitted>>

InitHist ==
    /\ users = [u \in Users |->
                    CASE u = "u1" -> [User(None, TRUE) EXCEPT !.is_phone_verified = TRUE]
                      [] u = "u2" -> User("admin", FALSE)
                      [] u = "adm" -> User("sempoadmin", FALSE)]
    /\ transfers = <<>>
    /\ now = 0
    /\ result = NoResult
    /\ registry = LIMITS
    /\ calls = <<>>
    /\ uncommitted = {}

NextHist ==
    \/ \E in \in HistInputs : CreateTransfer(in)
    \/ \E st \in {"COMPLETE", "REJECTED"} : ResolveTransfer(st)
    \/ \E d \in DayPoints : AdvanceTime(d)
    \/ \E b \in Balances : ChangeBalance("u1", b)
    \/ \E i \in LimitIds : ValidateTransfer(i)
    \/ HasCandidate /\ GetTransferLimits(Candidate)
    \/ CheckSenderTransferLimits

SpecHist == InitHist /\ [][NextHist]_vars

(***************************************************************************)
(* Withdrawals, deposits and agent-out payments of a sender whose          *)
(* verification state evolves: each is created, checked by the engine      *)
(* against the sender's history, and resolved.                             *)
(***************************************************************************)
BlockedInputs ==
    {<<"u1", WITHDRAWAL, None, 250, FALSE>>,
     <<"u1", DEPOSIT, STANDARD, 1, FALSE>>,
     <<"u1", PAYMENT, AGENT_OUT, 250, FALSE>>}

BlockedKycInputs ==
    {KycApplication("VERIFIED", "INDIVIDUAL", FALSE),
     KycApplication("VERIFIED", "BUSINESS", FALSE)}

NextBlocked ==
    \/ \E u \in Subjects : VerifyPhone(u)
    \/ \E u \in Subjects, app \in BlockedKycInputs : AddKycApplication(u, app)
    \/ \E in \in BlockedInputs : CreateTransfer(in)
    \/ \E st \in {"COMPLETE", "REJECTED"} : ResolveTransfer(st)
    \/ \E i \in LimitIds : ValidateTransfer(i)
    \/ CheckSenderTransferLimits

SpecBlocked == InitTiers /\ [][NextBlocked]_vars

(***************************************************************************)
(* Sequences of engine calls: get_transfer_limits is called on any         *)
(* persisted transfer and validate_transfer on the transfer under          *)
(* validation, in any order and number, while the sender's phone gets      *)
(* verified, transfers are created and a week passes; every call is        *)
(* recorded with the sender state it was made in and with what it          *)
(* returned.                                                               *)
(***************************************************************************)
CallInputs ==
    {<<"u1", PAYMENT, STANDARD, 250, FALSE>>,
     <<"u1", PAYMENT, AGENT_OUT, 251, FALSE>>}

RecordedGetTransferLimits(j) ==
    /\ Len(calls) < MaxCalls
    /\ j \in 1..Len(transfers)
    /\ LET r == [op |-> "get_transfer_limits", transfer |-> transfers[j],
                 sender |-> users[transfers[j].sender_user],
                 limits |-> get_transfer_limits(transfers[j])]
       IN result' = r /\ calls' = Append(calls, r)
    /\ registry' = registry_after_get_transfer_limits(registry, transfers[j])
    /\ UNCHANGED <<users, transfers, now, uncommitted>>

RecordedValidateTransfer(i) ==
    /\ Len(calls) < MaxCalls
    /\ HasCandidate
    /\ i \in 1..Len(registry)
    /\ applies_to_transfer(registry[i], Candidate)
    /\ LET v == validate_transfer(registry[i], Candidate)
           r == [op |-> "validate_transfer", transfer |-> Candidate, limit |-> i,
                 sender |-> users[Candidate.sender_user],
                 outcome |-> v.outcome, available |-> v.available]
       IN result' = r /\ calls' = Append(calls, r)
    /\ registry' = registry_after_validate_transfer(registry, i, Candidate)
    /\ UNCHANGED <<users, transfers, now, uncommitted>>

NextCalls ==
    \/ \E u \in Subjects : VerifyPhone(u)
    \/ \E in \in CallInputs : CreateTransfer(in)
    \/ \E d \in {7} : AdvanceTime(d)
    \/ \E j \in 1..MaxTransfers : RecordedGetTransferLimits(j)
    \/ \E i \in LimitIds : RecordedValidateTransfer(i)

SpecCalls == InitTiers /\ [][NextCalls]_vars

(***************************************************************************)
(* Concurrent submissions: each transfer is created in a database session  *)
(* of its own, validated there, and committed; sessions overlap freely.    *)
(***************************************************************************)
RaceInputs ==
    {<<"u1", PAYMENT, STANDARD, 250, FALSE>>,
     <<"u1", PAYMENT, STANDARD, 1, FALSE>>}

\* a session opens and creates its transfer
BeginTransfer(in) ==
    /\ Len(transfers) < MaxTransfers
    /\ transfers' = Append(transfers,
            CreditTransfer(Len(transfers) + 1, in[1], None, in[2], in[3], in[4],
                           "LIQUID", in[5], now))
    /\ uncommitted' = uncommitted \cup {Len(transfers) + 1}
    /\ result' = NoResult
    /\ UNCHANGED <<users, now, registry, calls>>

\* limit.validate_transfer(transfer) in the session of transfer j, recorded
\* with the ids of the rows committed at that time
SessionValidateTransfer(j, i) ==
    /\ Len(calls) < MaxCalls
    /\ j \in 1..Len(transfers)
    /\ transfers[j].id \in uncommitted
    /\ i \in 1..Len(registry)
    /\ applies_to_transfer(registry[i], transfers[j])
    /\ LET v == validate_transfer(registry[i], transfers[j])
           r == [op |-> "validate_transfer", transfer |-> transfers[j], limit |-> i,
                 outcome |-> v.outcome, available |-> v.available,
                 committed |-> {transfers[k].id : k \in 1..Len(transfers)} \ uncommitted]
       IN result' = r /\ calls' = Append(calls, r)
    /\ registry' = registry_after_validate_transfer(registry, i, transfers[j])
    /\ UNCHANGED <<users, transfers, now, uncommitted>>

\* the session of transfer j commits
CommitTransfer(j) ==
    /\ j \in 1..Len(transfers)
    /\ transfers[j].id \in uncommitted
    /\ uncommitted' = uncommitted \ {transfers[j].id}
    /\ result' = NoResult
    /\ UNCHANGED <<users, transfers, now, registry, calls>>

NextRace ==
    \/ \E in \in RaceInputs : BeginTransfer(in)
    \/ \E j \in 1..MaxTransfers, i \in LimitIds : SessionValidateTransfer(j, i)
    \/ \E j \in 1..MaxTransfers : CommitTransfer(j)

SpecRace == InitHist /\ [][NextRace]_vars

(***************************************************************************)
(* Serialized submissions: the caller records a transfer, has the          *)
(* evaluator validate it against the history, and marks it complete or     *)
(* rejected before anything else happens.                                  *)
(***************************************************************************)
\* sender, recipient, type, subtype, amount
SerialInputs ==
    {<<"u1", None, PAYMENT, STANDARD, 250>>,
     <<"u1", None, PAYMENT, STANDARD, 1>>,
     <<"u1", None, PAYMENT, AGENT_IN, 251>>,
     <<"u1", "adm", PAYMENT, STANDARD, 251>>,
     <<"u1", None, PAYMENT, DISBURSEMENT, 251>>,
     <<"u2", None, PAYMENT, STANDARD, 1>>}

\* every recorded transfer has been decided
Decided == \A j \in 1..Len(transfers) : transfers[j].transfer_status # "PENDING"

RecordTransfer(in) ==
    /\ Len(transfers) < MaxTransfers
    /\ Decided
    /\ transfers' = Append(transfers,
            CreditTransfer(Len(transfers) + 1, in[1], in[2], in[3], in[4], in[5],
                           "LIQUID", FALSE, now))
    /\ result' = NoResult
    /\ UNCHANGED <<users, now, registry, calls, uncommitted>>

\* the evaluator decides the recorded transfer; a failure marks it rejected
DecideTransfer ==
    /\ HasCandidate
    /\ LET r == check_sender_transfer_limits(Candidate)
       IN /\ transfers' = [transfers EXCEPT ![Len(transfers)].transfer_status =
                              IF r.outcome = "pass" THEN "COMPLETE" ELSE "REJECTED"]
          /\ result' = [op |-> "submit", transfer |-> Candidate,
                        outcome |-> r.outcome, limit |-> r.limit]
          /\ registry' = r.registry
    /\ UNCHANGED <<users, now, calls, uncommitted>>

NextSerial ==
    \/ \E in \in SerialInputs : RecordTransfer(in)
    \/ DecideTransfer
    \/ \E d \in {7, 8, 31} : Decided /\ AdvanceTime(d)

SpecSerial == InitHist /\ [][NextSerial]_vars

(***************************************************************************)
(* Registries in another order: the module-level list holds the same rules *)
(* with the six rules that can apply to a payment of a phone-verified      *)
(* group account holder in any order, the other rules in place.            *)
(***************************************************************************)
ReorderedIds ==
    {i \in LimitIds :
        /\ \/ STANDARD_PAYMENT \in Range(LIMITS[i].applied_to_transfer_types)
           \/ AGENT_OUT_PAYMENT \in Range(LIMITS[i].applied_to_transfer_types)
        /\ LIMITS[i].application_filter \in
                {"is_any_token_and_user_is_phone_but_not_kyc_verified",
                 "is_group_and_liquid_token"}}

\* LIMITS with the rules at ReorderedIds permuted by p
Reordered(p) == [k \in LimitIds |-> IF k \in ReorderedIds THEN LIMITS[p[k]] ELSE LIMITS[k]]

OrderInputs ==
    {<<"u1", PAYMENT, STANDARD, 250, FALSE>>,
     <<"u1", PAYMENT, AGENT_OUT, 1, FALSE>>,
     <<"u1", PAYMENT, AGENT_OUT, 251, FALSE>>}

InitOrder ==
    /\ users = [u \in Users |->
                    CASE u = "u1" -> [User(None, TRUE) EXCEPT !.is_phone_verified = TRUE]
                      [] u = "u2" -> User("admin", FALSE)
                      [] u = "adm" -> User("sempoadmin", FALSE)]
    /\ transfers = <<>>
    /\ now = 0
    /\ result = NoResult
    /\ \E p \in Permutations(ReorderedIds) : registry = Reordered(p)
    /\ calls = <<>>
    /\ uncommitted = {}

NextOrder ==
    \/ \E in \in OrderInputs : CreateTransfer(in)
    \/ \E st \in {"COMPLETE", "REJECTED"} : ResolveTransfer(st)
    \/ CheckSenderTransferLimits

SpecOrder == InitOrder /\ [][NextOrder]_vars

(***************************************************************************)
(* Properties of rule applicability (checked under SpecTiers).             *)
(***************************************************************************)
\* the position in LIMITS of the rule with this (unique) name
LimitNamed(name) == CHOOSE i \in LimitIds : LIMITS[i].name = name

\* the verification tier a rule belongs to (-1: the liquid-token sub-policy)
TierOfLimit(i) ==
    CASE LIMITS[i].application_filter = "is_any_token_and_user_is_not_phone_and_not_kyc_verified" -> 0
      [] LIMITS[i].application_filter = "is_any_token_and_user_is_phone_but_not_kyc_verified" -> 1
      [] LIMITS[i].application_filter = "is_any_token_and_user_is_kyc_verified" -> 2
      [] LIMITS[i].application_filter = "is_any_token_and_user_is_kyc_business_verified" -> 3
      [] OTHER -> -1

TiersApplied(limits) == {TierOfLimit(i) : i \in Range(limits)} \ {-1}

IsGeneralPayment(t) ==
    t.transfer_type = PAYMENT
        /\ t.transfer_subtype \in {STANDARD, AGENT_IN, AGENT_OUT, RECLAMATION}

\* C1: whenever a sempoadmin is the sender or the recipient of the transfer,
\* get_transfer_limits returns the empty list.
C1_AdminExempt ==
    (result.op = "get_transfer_limits" /\ sempo_admin_involved(result.transfer))
        => result.limits = <<>>

\* C1 witness: a transfer of an ordinary sender to a sempoadmin, of a type and
\* token for which tier rules exist, was evaluated.
C1_Witness ==
    /\ result.op = "get_transfer_limits"
    /\ result.transfer.sender_user = "u1"
    /\ result.transfer.recipient_user = "adm"
    /\ result.transfer.token = "LIQUID"
    /\ result.transfer.transfer_type = WITHDRAWAL
    /\ result.limits = <<>>

\* C8: the rules returned for one transfer never belong to two different
\* verification tiers.
C8_TiersMutuallyExclusive ==
    result.op = "get_transfer_limits" => Cardinality(TiersApplied(result.limits)) <= 1

NoVerifiedKyc(u) ==
    \A i \in 1..Len(users[u].kyc_applications) :
        users[u].kyc_applications[i].kyc_status # "VERIFIED"

HasIndividualKyc(u) ==
    \E i \in 1..Len(users[u].kyc_applications) :
        /\ users[u].kyc_applications[i].kyc_status = "VERIFIED"
        /\ users[u].kyc_applications[i].type = "INDIVIDUAL"
        /\ ~users[u].kyc_applications[i].multiple_documents_verified

Level1Payments == {LimitNamed("Sempo Level 1: P7"), LimitNamed("Sempo Level 1: P30")}
Level2Payments == {LimitNamed("Sempo Level 2: P7"), LimitNamed("Sempo Level 2: P30")}

\* the general payments of sender u that tier rules govern: a liquid or
\* reserve token and no sempoadmin as recipient
TierGovernedPayments(u) ==
    {x \in TierTransfers : /\ x.sender_user = u
                           /\ IsGeneralPayment(x)
                           /\ x.token \in TokenTypes
                           /\ x.recipient_user # "adm"}

\* C9: in a step in which a phone-verified sender without verified KYC gains
\* a verified Individual (not multiple-documents) application, every general
\* payment of the sender is under the Level 1 P7/P30 rules before the step
\* and under the Level 2 P7/P30 rules, and no other tier's, after it; the
\* ceilings in force are then the Tier-2 values.  (The rules read the users
\* only, so the steps taken with no returned value pending cover every
\* change of the users.)
C9_TierEscalation ==
    [][\A u \in Subjects :
        (/\ result = NoResult
         /\ users[u].is_phone_verified /\ NoVerifiedKyc(u) /\ HasIndividualKyc(u)')
            => \A t \in TierGovernedPayments(u) :
                LET before == get_transfer_limits(t)
                    after == get_transfer_limits(t)'
                IN /\ TiersApplied(before) = {1}
                   /\ Level1Payments \subseteq Range(before)
                   /\ TiersApplied(after) = {2}
                   /\ Level2Payments \subseteq Range(after)
                   /\ \A i \in Level2Payments :
                        LIMITS[i].total_amount =
                            int_times(TRANSFER_LIMITS[IF LIMITS[i].time_period_days = 7
                                                      THEN "2.P7" ELSE "2.P30"],
                                      LIMIT_EXCHANGE_RATE)
      ]_vars

\* C9 witness: after the escalation the Level 2 rules are returned for a
\* general payment of the sender.
C9_Witness ==
    /\ result.op = "get_transfer_limits"
    /\ result.transfer.sender_user = "u1"
    /\ IsGeneralPayment(result.transfer)
    /\ users["u1"].is_phone_verified
    /\ Len(users["u1"].kyc_applications) = 1
    /\ HasIndividualKyc("u1")
    /\ Level2Payments \subseteq Range(result.limits)
    /\ Level1Payments \cap Range(result.limits) = {}

\* the selector set of a rule
Selectors(limit) == Range(limit.applied_to_transfer_types)

\* C10: a rule is returned iff the transfer's type, or its exact
\* (type, subtype) pair, is one of the rule's selectors and the rule's
\* eligibility predicate holds; a (Type, SubType) selector matches no other
\* subtype of that type.
C10_AppliesExactMatch ==
    result.op = "get_transfer_limits" =>
        /\ \A i \in LimitIds :
            i \in Range(result.limits) <=>
                /\ \/ <<result.transfer.transfer_type>> \in Selectors(LIMITS[i])
                   \/ <<result.transfer.transfer_type, result.transfer.transfer_subtype>>
                        \in Selectors(LIMITS[i])
                /\ application_filter(LIMITS[i].application_filter, result.transfer)
        /\ \A i \in Range(result.limits) :
            (\A sel \in Selectors(LIMITS[i]) : Len(sel) = 2)
                => \E sel \in Selectors(LIMITS[i]) :
                        sel[2] = result.transfer.transfer_subtype

\* C10 witness: a payment without subtype of a sender for whom the
\* eligibility predicate of the Level 0 payment rules holds matches nothing.
C10_Witness ==
    /\ result.op = "get_transfer_limits"
    /\ result.transfer.transfer_type = PAYMENT
    /\ result.transfer.transfer_subtype = None
    /\ is_any_token_and_user_is_not_phone_and_not_kyc_verified(result.transfer)
    /\ result.limits = <<>>

(***************************************************************************)
(* Properties of the checks called on their own (checked under             *)
(* SpecChecks).                                                            *)
(***************************************************************************)
\* the checks that read the sender / the token
ReadsSender(check) ==
    check \in (SimpleChecks \ {"token_is_liquid_type", "token_is_reserve_type"})
                \cup CompositeChecks

ReadsToken(check) ==
    check \in {"token_is_liquid_type", "token_is_reserve_type"}
                \cup (CompositeChecks \ {"base_check"})

\* C11: every check, simple or composite, called on any transfer returns
\* without failing, and its answer is false (None counting as false) when
\* the transfer has no sender, for a check that reads the sender, or no
\* token, for a check that reads the token.
C11_ChecksTotal ==
    result.op = "check" =>
        /\ result.raised = None
        /\ (ReadsSender(result.check) /\ result.transfer.sender_user = None)
                => result.v \in {"False", None}
        /\ (ReadsToken(result.check) /\ result.transfer.token = None)
                => result.v \in {"False", None}

RECURSIVE SumAmounts(_)
SumAmounts(rows) ==
    IF rows = {} THEN 0
    ELSE LET r == CHOOSE x \in rows : TRUE
         IN transfers[r].transfer_amount + SumAmounts(rows \ {r})

\* the rows of t's sender, other than t itself, that are not rejected and
\* were created within the last `days` days
PriorRows(t, days) ==
    {j \in 1..Len(transfers) :
        /\ transfers[j].id # t.id
        /\ transfers[j].sender_user = t.sender_user
        /\ transfers[j].transfer_status # "REJECTED"
        /\ now - transfers[j].created <= days}

SameType(rows, t) == {j \in rows : transfers[j].transfer_type = t.transfer_type}

\* rows that are a withdrawal or an agent-out payment, not excluded from the
\* limit calculations
IsCashOut(c) ==
    /\ c.transfer_type = WITHDRAWAL \/ c.transfer_subtype = AGENT_OUT
    /\ ~c.exclude_from_limit_calcs

CashOut(rows) == {j \in rows : IsCashOut(transfers[j])}

Validated(cls) == result.op = "validate_transfer" /\ LIMITS[result.limit].cls = cls

Short(i, t) ==
    /\ available(LIMITS[i], t).raised = None
    /\ available(LIMITS[i], t).v < case_will_use(LIMITS[i], t)

Enough(i, t) ==
    /\ available(LIMITS[i], t).raised = None
    /\ available(LIMITS[i], t).v >= case_will_use(LIMITS[i], t)

\* C2: the evaluator admits a transfer iff every applicable rule has
\* available >= case_will_use, and when an applicable rule has
\* available < case_will_use the decision is the rejection of such a rule.
C2_AdmittedIffAllRulesPass ==
    result.op = "check_sender_transfer_limits" =>
        LET t == result.transfer
            applicable == Range(get_transfer_limits(t))
        IN /\ result.outcome = "pass" <=> \A i \in applicable : Enough(i, t)
           /\ (\E i \in applicable : Short(i, t))
                => \E i \in applicable :
                        Short(i, t) /\ result.outcome = throw_validation_error(LIMITS[i])

\* C3: a TotalAmountLimit with ceiling C and window D passes a transfer of
\* amount A iff S + A <= C, S being the sum of the sender's other
\* non-rejected transfers of the same type created within the last D days,
\* and otherwise raises the total-amount rejection.
C3_TotalAmountWindow ==
    Validated("TotalAmountLimit") =>
        LET t == result.transfer
            limit == LIMITS[result.limit]
            S == SumAmounts(SameType(PriorRows(t, limit.time_period_days), t))
        IN /\ result.outcome = "pass" <=> S + t.transfer_amount <= limit.total_amount
           /\ result.outcome \in {"pass", "TransferAmountLimitError"}

\* C3 witness: a 7-day rule passes a transfer that, with the prior usage,
\* lands exactly on the ceiling.
C3_Witness ==
    /\ Validated("TotalAmountLimit")
    /\ LIMITS[result.limit].time_period_days = 7
    /\ result.outcome = "pass"
    /\ SumAmounts(SameType(PriorRows(result.transfer, 7), result.transfer)) > 0
    /\ SumAmounts(SameType(PriorRows(result.transfer, 7), result.transfer))
            + result.transfer.transfer_amount = LIMITS[result.limit].total_amount

\* C4: a TransferCountLimit of N transfers passes a matching transfer iff
\* fewer than N other matching transfers of the sender are in the window,
\* and otherwise raises the transfer-count rejection; the capacity left is
\* N minus the number of the other matching transfers.
C4_TransferCount ==
    (Validated("TransferCountLimit") /\ IsCashOut(result.transfer)) =>
        LET t == result.transfer
            limit == LIMITS[result.limit]
            others == Cardinality(CashOut(PriorRows(t, limit.time_period_days)))
        IN /\ result.outcome = "pass" <=> others + 1 <= limit.transfer_count
           /\ result.outcome \in {"pass", "TransferCountLimitError"}
           /\ result.available = limit.transfer_count - others

\* C4 witness: with N matching transfers in the window the next one fails.
C4_Witness ==
    /\ Validated("TransferCountLimit")
    /\ IsCashOut(result.transfer)
    /\ Cardinality(CashOut(PriorRows(result.transfer, 30))) = LIMITS[result.limit].transfer_count
    /\ result.outcome = "TransferCountLimitError"

\* C5: a MaximumAmountPerTransferLimit passes a transfer iff its amount is
\* at most the configured maximum scaled by the exchange rate and truncated,
\* and otherwise raises the maximum-per-transfer rejection.
C5_MaximumPerTransfer ==
    Validated("MaximumAmountPerTransferLimit") =>
        LET C == (TRANSFER_LIMITS["LT.MaxAm"] * LIMIT_EXCHANGE_RATE[1]) \div LIMIT_EXCHANGE_RATE[2]
        IN /\ result.outcome = "pass" <=> result.transfer.transfer_amount <= C
           /\ result.outcome \in {"pass", "MaximumPerTransferLimitError"}

\* C5 witness: a transfer of exactly the ceiling passes although the sender
\* has an earlier transfer in the window.
C5_Witness ==
    /\ Validated("MaximumAmountPerTransferLimit")
    /\ result.transfer.transfer_amount = 250
    /\ result.outcome = "pass"
    /\ CashOut(PriorRows(result.transfer, 30)) # {}

\* C6: a BalanceFractionLimit passes a transfer of amount A iff
\* U + A <= floor(fraction * balance), U being the sender's other matching
\* transfers in the window, and otherwise raises the balance-fraction
\* rejection.
C6_BalanceFraction ==
    Validated("BalanceFractionLimit") =>
        LET t == result.transfer
            limit == LIMITS[result.limit]
            U == SumAmounts(CashOut(PriorRows(t, limit.time_period_days)))
            ceiling == (users[t.sender_user].balance * limit.balance_fraction[1])
                            \div limit.balance_fraction[2]
        IN /\ result.outcome = "pass" <=> U + t.transfer_amount <= ceiling
           /\ result.outcome \in {"pass", "TransferBalanceFractionLimitError"}

\* C7: the capacity a BalanceFractionLimit reports is
\* floor(fraction * balance) of the sender's balance at the time of the
\* validation, less the usage the rule computes.
C7_LiveBalance ==
    (Validated("BalanceFractionLimit") /\ result.outcome # "TypeError") =>
        LET t == result.transfer
            limit == LIMITS[result.limit]
            counted == SumAmounts(CashOut(PriorRows(t, limit.time_period_days)))
                        + (IF IsCashOut(t) THEN t.transfer_amount ELSE 0)
            ceiling == (users[t.sender_user].balance * limit.balance_fraction[1])
                            \div limit.balance_fraction[2]
        IN /\ result.available = ceiling - (counted - t.transfer_amount)
           /\ result.outcome = "pass" <=> result.available >= t.transfer_amount

\* C7 witness: after the balance dropped from 500 to 3 a transfer of 250 is
\* rejected by the balance-fraction rule.
C7_Witness ==
    /\ Validated("BalanceFractionLimit")
    /\ users[result.transfer.sender_user].balance = 3
    /\ result.transfer.transfer_amount = 250
    /\ result.available = 1
    /\ result.outcome = "TransferBalanceFractionLimitError"

\* the sender's non-rejected standard payments (type Payment, subtype
\* Standard) created within the last `days` days
StandardPayments(t, days) ==
    {j \in 1..Len(transfers) :
        /\ transfers[j].sender_user = t.sender_user
        /\ transfers[j].transfer_status # "REJECTED"
        /\ now - transfers[j].created <= days
        /\ transfers[j].transfer_type = PAYMENT
        /\ transfers[j].transfer_subtype = STANDARD}

\* C12: a MinimumSentLimit with the default reference category and window D
\* passes a transfer of amount A (one that matches the aggregation filter)
\* iff U + A <= P, U being the sender's other in-window transfers matching
\* the aggregation filter and P the sum of the sender's non-rejected
\* standard payments (type Payment, subtype Standard) in the window, and
\* otherwise raises the minimum-sent rejection; no transfer of another
\* category adds capacity.
C12_MinimumSent ==
    (Validated("MinimumSentLimit") /\ IsCashOut(result.transfer)) =>
        LET t == result.transfer
            limit == LIMITS[result.limit]
            U == SumAmounts(CashOut(PriorRows(t, limit.time_period_days)))
            P == SumAmounts(StandardPayments(t, limit.time_period_days))
        IN /\ result.outcome = "pass" <=> U + t.transfer_amount <= P
           /\ result.outcome \in {"pass", "MinimumSentLimitError"}

(***************************************************************************)
(* Properties of the fully blocked tiers (checked under SpecBlocked).      *)
(***************************************************************************)
\* a transfer with a liquid or reserve token of an existing sender, no
\* sempoadmin involved, the sender having no verified KYC application
WithoutKyc(t) ==
    /\ t.sender_user # None
    /\ ~sempo_admin_involved(t)
    /\ t.token \in TokenTypes
    /\ NoVerifiedKyc(t.sender_user)

\* C14: a NoTransferAllowedLimit rejects every transfer it is validated
\* against, with available 0 and case_will_use 1, whatever the amount and
\* the history; and the evaluator rejects every Withdrawal or Deposit of a
\* sender in the unverified tier or in the phone-verified-only tier (no
\* verified KYC application, phone verified or not; or the Level 0 or
\* Level 1 predicate of the registry holds) with the no-transfer-allowed
\* rejection.
C14_NoTransferAllowed ==
    /\ Validated("NoTransferAllowedLimit") =>
            /\ result.outcome = "NoTransferAllowedLimitError"
            /\ result.available = 0
            /\ case_will_use(LIMITS[result.limit], result.transfer) = 1
    /\ (/\ result.op = "check_sender_transfer_limits"
        /\ result.transfer.transfer_type \in {WITHDRAWAL, DEPOSIT}
        /\ \/ WithoutKyc(result.transfer)
           \/ is_any_token_and_user_is_not_phone_and_not_kyc_verified(result.transfer)
           \/ is_any_token_and_user_is_phone_but_not_kyc_verified(result.transfer))
            => result.outcome = "NoTransferAllowedLimitError"

\* C14 witness: the deposit of 1 of a phone-verified sender without KYC, who
\* has an earlier completed transfer, is rejected by the evaluator with the
\* Level 1 no-transfer rule.
C14_Witness ==
    /\ result.op = "check_sender_transfer_limits"
    /\ result.transfer.transfer_type = DEPOSIT
    /\ result.transfer.transfer_amount = 1
    /\ users[result.transfer.sender_user].is_phone_verified
    /\ WithoutKyc(result.transfer)
    /\ Len(transfers) = 2
    /\ transfers[1].transfer_status = "COMPLETE"
    /\ result.outcome = "NoTransferAllowedLimitError"
    /\ result.limit = LimitNamed("Sempo Level 1: WD30")

(***************************************************************************)
(* Properties of concurrent submissions (checked under SpecRace).          *)
(***************************************************************************)
\* the rows committed when call k was made that a TotalAmountLimit counts
\* for the transfer of call k: same sender, same type, not rejected, in the
\* window, other than the transfer itself
SeenBy(k) ==
    {j \in 1..Len(transfers) :
        /\ transfers[j].id \in calls[k].committed
        /\ transfers[j].id # calls[k].transfer.id
        /\ transfers[j].sender_user = calls[k].transfer.sender_user
        /\ transfers[j].transfer_type = calls[k].transfer.transfer_type
        /\ transfers[j].transfer_status # "REJECTED"
        /\ now - transfers[j].created <= LIMITS[calls[k].limit].time_period_days}

TotalAmountCalls ==
    {k \in 1..Len(calls) :
        calls[k].op = "validate_transfer" /\ LIMITS[calls[k].limit].cls = "TotalAmountLimit"}

\* C15: a validation by a TotalAmountLimit is decided on the committed rows
\* and the transfer itself alone: it passes iff the committed in-window
\* usage plus the transfer's amount is within the ceiling, whatever
\* transfers of the same sender are in flight in other sessions; nothing in
\* the engine takes a sibling's uncommitted transfer into account.
C15_ConcurrentValidationsRace ==
    \A k \in TotalAmountCalls :
        calls[k].outcome = "pass"
            <=> SumAmounts(SeenBy(k)) + calls[k].transfer.transfer_amount
                    <= LIMITS[calls[k].limit].total_amount

\* C15 witness: two transfers of one sender, neither committed when the
\* other was validated, both passed the same TotalAmountLimit although
\* their amounts together with the usage both saw exceed the ceiling.
C15_Witness ==
    \E a \in TotalAmountCalls, b \in TotalAmountCalls :
        /\ a < b
        /\ calls[a].limit = calls[b].limit
        /\ calls[a].transfer.id # calls[b].transfer.id
        /\ calls[a].transfer.sender_user = calls[b].transfer.sender_user
        /\ calls[a].transfer.id \notin calls[b].committed
        /\ calls[b].transfer.id \notin calls[a].committed
        /\ calls[a].outcome = "pass"
        /\ calls[b].outcome = "pass"
        /\ SumAmounts(SeenBy(a) \cap SeenBy(b)) + calls[a].transfer.transfer_amount
                + calls[b].transfer.transfer_amount > LIMITS[calls[a].limit].total_amount

(***************************************************************************)
(* Properties of the aggregates (checked under SpecHist).                  *)
(***************************************************************************)
AggregateClasses ==
    {"TotalAmountLimit", "MinimumSentLimit", "BalanceFractionLimit", "TransferCountLimit"}

\* the sender's other transfers a rule aggregates for transfer t: in the
\* window, not rejected, matching the rule's refinement
OtherMatching(limit, t) ==
    IF limit.custom_aggregation_filter = "matching_transfer_type_filter"
    THEN SameType(PriorRows(t, limit.time_period_days), t)
    ELSE CashOut(PriorRows(t, limit.time_period_days))

\* what the other transfers use of a rule: their number for a
\* TransferCountLimit, the sum of their amounts for the other rules
UsedByOthers(limit, t) ==
    IF limit.cls = "TransferCountLimit"
    THEN Cardinality(OtherMatching(limit, t))
    ELSE SumAmounts(OtherMatching(limit, t))

\* C16: for every aggregate rule and every candidate, also one that does
\* not match the rule's aggregation filter, the used figure is what the
\* sender's other matching in-window transfers use (the sum of their
\* amounts, or their number for a TransferCountLimit): the validation ends
\* with available = base - (usage of the others).
C16_SelfExclusionExact ==
    (result.op = "validate_transfer" /\ LIMITS[result.limit].cls \in AggregateClasses) =>
        /\ result.outcome # "TypeError"
        /\ result.available =
                available_base(LIMITS[result.limit], result.transfer)
                    - UsedByOthers(LIMITS[result.limit], result.transfer)

\* the transfers a rule's aggregate is to count for transfer t under the
\* refinement `refinement`: same sender, not Rejected, created within the
\* window, satisfying the refinement
Counted(limit, t, refinement) ==
    {j \in 1..Len(transfers) :
        /\ transfers[j].sender_user = t.sender_user
        /\ transfers[j].transfer_status # "REJECTED"
        /\ now - transfers[j].created <= limit.time_period_days
        /\ CASE refinement = "matching_transfer_type_filter" ->
                    transfers[j].transfer_type = t.transfer_type
             [] refinement = "withdrawal_or_agent_out_and_not_excluded_filter" ->
                    IsCashOut(transfers[j])
             [] refinement = "regular_payment_filter" ->
                    transfers[j].transfer_subtype = STANDARD}

\* the capacity of a rule before usage, from the counted transfers alone
BaseFromCounted(limit, t) ==
    CASE limit.cls = "TotalAmountLimit" -> limit.total_amount
      [] limit.cls = "TransferCountLimit" -> limit.transfer_count
      [] limit.cls = "BalanceFractionLimit" ->
            (users[t.sender_user].balance * limit.balance_fraction[1])
                \div limit.balance_fraction[2]
      [] limit.cls = "MinimumSentLimit" ->
            SumAmounts(Counted(limit, t, "regular_payment_filter"))

\* C17: the aggregate of every aggregate rule is over exactly the transfers
\* of the candidate's sender that are not Rejected, were created within the
\* window and satisfy the rule's refinement; the available capacity and
\* the outcome of a validation are determined by these transfers alone, so
\* a transfer of another sender, a Rejected transfer or a transfer older
\* than the window changes neither.
C17_AggregateScope ==
    (result.op = "validate_transfer" /\ LIMITS[result.limit].cls \in AggregateClasses) =>
        LET t == result.transfer
            limit == LIMITS[result.limit]
            counted == Counted(limit, t, limit.custom_aggregation_filter)
            aggregate == IF limit.cls = "TransferCountLimit"
                         THEN Cardinality(counted) ELSE SumAmounts(counted)
            own == IF limit.cls = "TransferCountLimit" THEN 1 ELSE t.transfer_amount
        IN /\ query_constructor(limit, t) = counted
           /\ result.outcome = "TypeError" => counted = {}
           /\ result.outcome # "TypeError" =>
                /\ result.available = BaseFromCounted(limit, t) - (aggregate - own)
                /\ result.outcome = "pass" <=> result.available >= own

\* C17 witness: a TotalAmountLimit passes a transfer although the sender has
\* a Rejected transfer of the same type in the window with which the
\* ceiling would be exceeded.
C17_Witness ==
    /\ Validated("TotalAmountLimit")
    /\ result.outcome = "pass"
    /\ \E j \in 1..Len(transfers) :
            /\ transfers[j].id # result.transfer.id
            /\ transfers[j].sender_user = result.transfer.sender_user
            /\ transfers[j].transfer_type = result.transfer.transfer_type
            /\ transfers[j].transfer_status = "REJECTED"
            /\ now - transfers[j].created <= LIMITS[result.limit].time_period_days
            /\ transfers[j].transfer_amount + result.transfer.transfer_amount
                    > LIMITS[result.limit].total_amount

(***************************************************************************)
(* Properties of the registry order (checked under SpecOrder).             *)
(***************************************************************************)
\* the decision of the evaluator over the rules in the order of LIMITS
InOriginalOrder(t) ==
    first_failure(LIMITS,
                  SelectSeq([i \in LimitIds |-> i],
                            LAMBDA i : applies_to_transfer(LIMITS[i], t)),
                  1, t)

\* C18: whatever the order of the rules in the registry, the evaluator
\* admits a transfer iff it admits it with the rules in the original order,
\* for the same transfer, sender state and history.
C18_OrderIndependent ==
    result.op = "check_sender_transfer_limits" =>
        (result.outcome = "pass" <=> InOriginalOrder(result.transfer).outcome = "pass")

\* C18 witness: with the rules in another order a transfer is rejected as it
\* is in the original order, but with the rejection of another rule.
C18_Witness ==
    /\ result.op = "check_sender_transfer_limits"
    /\ registry # LIMITS
    /\ result.outcome \notin {"pass", "TypeError"}
    /\ InOriginalOrder(result.transfer).outcome \notin {"pass", "TypeError"}
    /\ InOriginalOrder(result.transfer).outcome # result.outcome

(***************************************************************************)
(* Properties of the rejections (checked under SpecHist).                  *)
(***************************************************************************)
TransferLimitErrors ==
    {"NoTransferAllowedLimitError", "MaximumPerTransferLimitError",
     "TransferAmountLimitError", "MinimumSentLimitError",
     "TransferBalanceFractionLimitError", "TransferCountLimitError"}

\* the keyword arguments other than the formatted message
StructuredFields(arguments) == DOMAIN arguments \ {"message"}

CarriesLimitName(arguments) ==
    StructuredFields(arguments) \cap {"name", "limit_name", "limit"} # {}

CarriesCeiling(arguments) ==
    StructuredFields(arguments)
        \cap {"maximum_amount_limit", "transfer_amount_limit", "transfer_count_limit"} # {}

CarriesAvailable(arguments, avail) ==
    /\ "transfer_amount_avail" \in StructuredFields(arguments)
    /\ arguments.transfer_amount_avail = avail

CarriesWindow(arguments, limit) ==
    /\ "limit_time_period_days" \in StructuredFields(arguments)
    /\ arguments.limit_time_period_days = limit.time_period_days

CarriesToken(arguments, t) ==
    /\ "token" \in StructuredFields(arguments)
    /\ arguments.token = t.token

\* C19: every rejection a rule raises carries, as fields beside the
\* message, the limit name, the ceiling, the computed available capacity,
\* the time window and the token.
C19_StructuredRejection ==
    (result.op = "validate_transfer" /\ result.outcome \in TransferLimitErrors) =>
        /\ CarriesLimitName(result.arguments)
        /\ CarriesCeiling(result.arguments)
        /\ CarriesAvailable(result.arguments, result.available)
        /\ CarriesWindow(result.arguments, LIMITS[result.limit])
        /\ CarriesToken(result.arguments, result.transfer)

(***************************************************************************)
(* Properties of serialized submissions (checked under SpecSerial).        *)
(***************************************************************************)
\* the TotalAmountLimit rules validated on transfer t
TotalAmountRules(t) ==
    {i \in 1..Len(registry) :
        registry[i].cls = "TotalAmountLimit" /\ applies_to_transfer(registry[i], t)}

\* the rows the aggregate of rule i reads for transfer t, today
Aggregated(i, t) == query_constructor(registry[i], t)

\* C20 as stated: with submissions serialized, the non-rejected transfers of
\* a sender that match a TotalAmountLimit's aggregation filter within its
\* window never add up to more than the rule's ceiling.
C20_AggregateWithinCeiling ==
    Decided =>
        \A j \in 1..Len(transfers) : \A i \in TotalAmountRules(transfers[j]) :
            SumAmounts(Aggregated(i, transfers[j])) <= registry[i].total_amount

\* C20 amended: with submissions serialized, the non-rejected transfers of a
\* sender to which a TotalAmountLimit applies, of the candidate's type and
\* within the window, never add up to more than the rule's ceiling.
C20_ValidatedWithinCeiling ==
    Decided =>
        \A j \in 1..Len(transfers) : \A i \in TotalAmountRules(transfers[j]) :
            SumAmounts({k \in Aggregated(i, transfers[j]) :
                          applies_to_transfer(registry[i], transfers[k])})
                <= registry[i].total_amount

\* C20 witness: a submission has been rejected by a TotalAmountLimit whose
\* window holds an admitted transfer, and admitting it would have passed
\* the ceiling.
C20_Witness ==
    /\ result.op = "submit"
    /\ result.outcome = "TransferAmountLimitError"
    /\ transfers[result.transfer.id].transfer_status = "REJECTED"
    /\ LET admitted == {k \in Aggregated(result.limit, result.transfer) :
                            applies_to_transfer(registry[result.limit], transfers[k])}
       IN /\ admitted # {}
          /\ SumAmounts(admitted) <= registry[result.limit].total_amount
          /\ SumAmounts(admitted) + result.transfer.transfer_amount
                > registry[result.limit].total_amount

(***************************************************************************)
(* Properties of the amount aggregate over no row (checked under SpecHist).*)
(***************************************************************************)
AmountAggregatingClasses == {"TotalAmountLimit", "BalanceFractionLimit", "MinimumSentLimit"}

\* C21: validation by an amount-aggregating rule ends in a decision, pass
\* or the rejection of that rule, and in no other failure, also when the sum
\* query selects no row.
C21_AmountRulesDecide ==
    (result.op = "validate_transfer"
        /\ LIMITS[result.limit].cls \in AmountAggregatingClasses) =>
        result.outcome \in {"pass", throw_validation_error(LIMITS[result.limit])}

(***************************************************************************)
(* Properties of the tiers taken together (checked under SpecTiers).       *)
(***************************************************************************)
\* the rolling-window amount rule of a tier for general payments
WindowRules(tier, days) ==
    {i \in LimitIds :
        /\ LIMITS[i].cls = "TotalAmountLimit"
        /\ TierOfLimit(i) = tier
        /\ LIMITS[i].applied_to_transfer_types = GENERAL_PAYMENTS
        /\ LIMITS[i].time_period_days = days}

\* the P7 and the P30 rule of one tier are among the limits
SomeTierApplies(limits) ==
    \E tier \in 0..3 :
        /\ WindowRules(tier, 7) \cap Range(limits) # {}
        /\ WindowRules(tier, 30) \cap Range(limits) # {}

\* a general payment in a liquid or reserve token of an existing sender who
\* is no sempoadmin
GeneralPaymentOfUser(t) ==
    /\ IsGeneralPayment(t)
    /\ t.token \in {"LIQUID", "RESERVE"}
    /\ t.sender_user # None
    /\ ~has_sufficient_tier(users[t.sender_user].roles, "sempoadmin")

\* C22 as stated: for every general payment in a liquid or reserve token of
\* an existing non-admin sender, the P7 and the P30 rule of some tier apply,
\* whatever the sender's verified phone and KYC applications.
C22_TiersExhaustive ==
    (result.op = "get_transfer_limits" /\ GeneralPaymentOfUser(result.transfer))
        => SomeTierApplies(result.limits)

\* C22 amended: the same for every such payment in which no sempoadmin is
\* involved, as recipient either.
C22_TiersExhaustiveWithoutAdmin ==
    (result.op = "get_transfer_limits" /\ GeneralPaymentOfUser(result.transfer)
        /\ ~sempo_admin_involved(result.transfer))
        => SomeTierApplies(result.limits)

\* C22 witness: the payment of a sender without verified phone whose only
\* verified KYC application is a business one gets the rules of a tier.
C22_Witness ==
    /\ result.op = "get_transfer_limits"
    /\ GeneralPaymentOfUser(result.transfer)
    /\ ~sempo_admin_involved(result.transfer)
    /\ ~user_phone_is_verified(result.transfer)
    /\ ~user_individual_kyc_is_verified(result.transfer)
    /\ user_business_or_multidoc_kyc_verified(result.transfer)
    /\ SomeTierApplies(result.limits)

(***************************************************************************)
(* Properties of payments outside the selectors (checked under SpecTiers). *)
(***************************************************************************)
\* a payment without subtype, or of a subtype other than the four general ones
IsOtherPayment(t) == t.transfer_type = PAYMENT /\ ~IsGeneralPayment(t)

\* C23: a payment without subtype, or of a subtype other than Standard,
\* AgentIn, AgentOut and Reclamation, matches no selector of any rule:
\* get_transfer_limits returns the empty list for it, whatever the sender's
\* tier and the token, and the evaluator admits it.
C23_OtherPaymentsUnlimited ==
    (result.op = "get_transfer_limits" /\ IsOtherPayment(result.transfer)) =>
        /\ \A i \in LimitIds :
            /\ <<result.transfer.transfer_type>> \notin Selectors(LIMITS[i])
            /\ <<result.transfer.transfer_type, result.transfer.transfer_subtype>>
                    \notin Selectors(LIMITS[i])
        /\ result.limits = <<>>
        /\ first_failure(registry, result.limits, 1, result.transfer).outcome = "pass"

\* C23 witness: the disbursement of a phone-verified group account holder in
\* a liquid token, whose agent-out payment has tier and group rules, gets
\* no rule.
C23_Witness ==
    /\ result.op = "get_transfer_limits"
    /\ result.transfer.transfer_type = PAYMENT
    /\ result.transfer.transfer_subtype = DISBURSEMENT
    /\ is_any_token_and_user_is_phone_but_not_kyc_verified(result.transfer)
    /\ is_group_and_liquid_token(result.transfer)
    /\ get_transfer_limits([result.transfer EXCEPT !.transfer_subtype = AGENT_OUT]) # <<>>
    /\ result.limits = <<>>

====
